---- MODULE Spec2Model ----
(***************************************************************************)
(* A model of the AI Learning Assistant (src/app.py): the text chunker,    *)
(* the three prompt pipelines (summary, MCQs, flashcards), the API key     *)
(* lookup at startup and the two user flows (YouTube, PDF).                *)
(*                                                                         *)
(* Strings are sequences of one-character strings; " " and "\n" are the    *)
(* whitespace characters.                                                  *)
(***************************************************************************)
EXTENDS Integers, Sequences, FiniteSets, TLC

VARIABLES
    pc,          \* position of the running call or flow
    text,        \* the text argument of chunk_text / generate_*
    max_chars,   \* the max_chars argument of chunk_text
    chunks,      \* the list chunk_text returned
    flow,        \* "none" (a direct call), "youtube" or "pdf"
    kind,        \* the generate_* running: "summary", "mcqs" or "flashcards"
    count,       \* num_questions / num_cards of the running generate_*
    per_chunk,   \* questions_per_chunk / cards_per_chunk
    idx,         \* 1-based position of the loop "for chunk in chunks"
    responses,   \* summaries / all_mcqs / all_flashcards
    inflight,    \* the prompt of the model call in progress, if any
    result,      \* what the running generate_* returned, if it has
    trace,       \* the model calls, replies and sleeps of this generate_* call
    failure,     \* what raised inside this generate_* call ("none" if nothing)
    ui,          \* what the run has put on the page, in order
    video_url,   \* the URL submitted to the YouTube flow, while it is read
    doc,         \* the transcript / pdf_text of the flow, if fetched
    svc_calls,   \* calls made to the transcript service in this run
    stage_calls, \* model calls issued in this run, per generate_* kind
    failed,      \* the generate_* kinds in which a model call raised in this run
    secret_key,  \* GOOGLE_API_KEY in st.secrets, if set
    env_key,     \* GOOGLE_API_KEY in the process environment, if set
    model,       \* the key self.model was configured with, once it is
    uploaded_file \* the file submitted to the PDF flow, while it is read

chunkVars == <<text, max_chars, chunks>>
genVars == <<kind, count, per_chunk, idx, responses, inflight, result, trace, failure>>
flowVars == <<flow, ui, video_url, doc, svc_calls, stage_calls, failed, uploaded_file>>
setupVars == <<secret_key, env_key, model>>
vars == <<pc, text, max_chars, chunks, flow, kind, count, per_chunk, idx, responses,
          inflight, result, trace, failure, ui, video_url, doc, svc_calls,
          stage_calls, failed, secret_key, env_key, model, uploaded_file>>

-----------------------------------------------------------------------------
(* Bounds of the model *)

MaxTextLen == 6      \* longest text given to chunk_text on its own
MaxCharsBound == 4   \* largest max_chars given to chunk_text on its own
MaxGenLen == 5       \* longest text given to a generate_* call on its own
MaxCount == 3        \* largest num_questions / num_cards of such a call
MaxSegs == 4         \* most segments of a transcript
MaxPages == 3        \* most pages of a PDF
MaxUrlParts == 3     \* most parts of a submitted URL

\* chunk_text's default max_chars, 30000 in the program, scaled down
DefaultMaxChars == 2

\* the defaults of num_questions and num_cards
DefaultNumQuestions == 8
DefaultNumCards == 12

-----------------------------------------------------------------------------
(* Strings *)

Chars == {"a", "b", " "}

Min(a, b) == IF a <= b THEN a ELSE b
Max(a, b) == IF a >= b THEN a ELSE b

SeqsUpTo(S, n) == UNION {[1..k -> S] : k \in 0..n}

Texts == SeqsUpTo(Chars, MaxTextLen)

IsSpace(c) == c \in {" ", "\n"}

\* word[:n]
Take(s, n) == SubSeq(s, 1, Min(n, Len(s)))

\* word[n:]
Drop(s, n) == IF n >= Len(s) THEN <<>> ELSE SubSeq(s, n + 1, Len(s))

\* str.split(): the maximal runs of non-whitespace characters, in order
RECURSIVE SplitFrom(_, _, _, _)
SplitFrom(s, i, cur, acc) ==
    IF i > Len(s)
    THEN IF cur = <<>> THEN acc ELSE Append(acc, cur)
    ELSE IF IsSpace(s[i])
         THEN SplitFrom(s, i + 1, <<>>, IF cur = <<>> THEN acc ELSE Append(acc, cur))
         ELSE SplitFrom(s, i + 1, Append(cur, s[i]), acc)

Split(s) == SplitFrom(s, 1, <<>>, <<>>)

\* sep.join(parts)
RECURSIVE JoinWith(_, _)
JoinWith(parts, sep) ==
    IF parts = <<>> THEN <<>>
    ELSE IF Len(parts) = 1 THEN parts[1]
    ELSE parts[1] \o sep \o JoinWith(Tail(parts), sep)

\* str.strip()
RECURSIVE LStrip(_)
LStrip(s) == IF s # <<>> /\ IsSpace(Head(s)) THEN LStrip(Tail(s)) ELSE s

RECURSIVE RStrip(_)
RStrip(s) ==
    IF s # <<>> /\ IsSpace(s[Len(s)]) THEN RStrip(SubSeq(s, 1, Len(s) - 1)) ELSE s

Strip(s) == RStrip(LStrip(s))

-----------------------------------------------------------------------------
(* chunk_text *)

\* An iteration that restarts the accumulation empty after emitting a chunk.
ChunkStep_DropsWord(st, word, maxc) ==
    LET word_length == Len(word) + 1
    IN IF st.current_length + word_length > maxc
       THEN IF st.current_chunk # <<>>
            THEN [chunks |-> Append(st.chunks, JoinWith(st.current_chunk, <<" ">>)),
                  current_chunk |-> <<>>,
                  current_length |-> 0]
            ELSE [chunks |-> Append(st.chunks, Take(word, maxc)),
                  current_chunk |-> IF Len(word) > maxc
                                    THEN <<Drop(word, maxc)>> ELSE <<>>,
                  current_length |-> IF Len(word) > maxc
                                     THEN Len(Drop(word, maxc)) ELSE 0]
       ELSE [chunks |-> st.chunks,
             current_chunk |-> Append(st.current_chunk, word),
             current_length |-> st.current_length + word_length]

\* One iteration of the loop "for word in words" on the loop state st.
ChunkStep(st, word, maxc) ==
    LET word_length == Len(word) + 1
    IN IF st.current_length + word_length > maxc
       THEN IF st.current_chunk # <<>>
            THEN [chunks |-> Append(st.chunks, JoinWith(st.current_chunk, <<" ">>)),
                  current_chunk |-> <<word>>,
                  current_length |-> word_length]
            ELSE [chunks |-> Append(st.chunks, Take(word, maxc)),
                  current_chunk |-> IF Len(word) > maxc
                                    THEN <<Drop(word, maxc)>> ELSE <<>>,
                  current_length |-> IF Len(word) > maxc
                                     THEN Len(Drop(word, maxc)) ELSE 0]
       ELSE [chunks |-> st.chunks,
             current_chunk |-> Append(st.current_chunk, word),
             current_length |-> st.current_length + word_length]

\* The loop state after the words i..Len(words) were taken from state st.
RECURSIVE ChunkLoop(_, _, _, _)
ChunkLoop(words, i, st, maxc) ==
    IF i > Len(words) THEN st
    ELSE ChunkLoop(words, i + 1, ChunkStep(st, words[i], maxc), maxc)

\* The loop state when the input ends.
ChunkLoopEnd(t, maxc) ==
    ChunkLoop(Split(t), 1,
              [chunks |-> <<>>, current_chunk |-> <<>>, current_length |-> 0],
              maxc)

\* A return without the flush.
ChunkFlush_NoFlush(st) == st.chunks

\* The flush after the loop, and the return.
ChunkFlush(st) ==
    IF st.current_chunk # <<>>
    THEN Append(st.chunks, JoinWith(st.current_chunk, <<" ">>))
    ELSE st.chunks

\* A chunk_text without the early return for short texts.
chunk_text_AlwaysSplits(t, maxc) == ChunkFlush(ChunkLoopEnd(t, maxc))

\* A chunk_text that returns the text itself when it found no word.
chunk_text_NeverEmpty(t, maxc) ==
    IF Len(t) <= maxc \/ ChunkFlush(ChunkLoopEnd(t, maxc)) = <<>> THEN <<t>>
    ELSE ChunkFlush(ChunkLoopEnd(t, maxc))

chunk_text(t, maxc) ==
    IF Len(t) <= maxc THEN <<t>> ELSE ChunkFlush(ChunkLoopEnd(t, maxc))

-----------------------------------------------------------------------------
(* Optional values, prompts, page output *)

None == [some |-> FALSE]
Some(v) == [some |-> TRUE, val |-> v]

Kinds == {"summary", "mcqs", "flashcards"}

\* The state of a run in which no generate_* call and no flow has started.
GenIdle ==
    /\ kind = "summary"
    /\ count = 0
    /\ per_chunk = 0
    /\ idx = 0
    /\ responses = <<>>
    /\ inflight = None
    /\ result = None
    /\ trace = <<>>
    /\ failure = "none"

FlowIdle ==
    /\ ui = <<>>
    /\ video_url = None
    /\ uploaded_file = None
    /\ doc = None
    /\ svc_calls = 0
    /\ stage_calls = [k \in Kinds |-> 0]
    /\ failed = {}

\* An assistant whose setup_api found a key in the environment.
SetUp ==
    /\ secret_key = None
    /\ env_key = Some(<<"e">>)
    /\ model = Some(<<"e">>)

-----------------------------------------------------------------------------
(* The chunker called on its own: every text, every positive bound *)

InitChunk ==
    /\ pc = "chunk_call"
    /\ text \in Texts
    /\ max_chars \in 1..MaxCharsBound
    /\ chunks = <<>>
    /\ flow = "none"
    /\ GenIdle
    /\ FlowIdle
    /\ SetUp

ChunkCall ==
    /\ pc = "chunk_call"
    /\ chunks' = chunk_text(text, max_chars)
    /\ pc' = "chunk_done"
    /\ UNCHANGED <<text, max_chars>>
    /\ UNCHANGED setupVars
    /\ UNCHANGED genVars
    /\ UNCHANGED flowVars

NextChunk == ChunkCall

SpecChunk == InitChunk /\ [][NextChunk]_vars

-----------------------------------------------------------------------------
(* extract_video_id *)

LitWatchV == <<"y", "o", "u", "t", "u", "b", "e", ".", "c", "o", "m", "/",
               "w", "a", "t", "c", "h", "?", "v", "=">>
LitShort == <<"y", "o", "u", "t", "u", ".", "b", "e", "/">>
LitEmbed == <<"y", "o", "u", "t", "u", "b", "e", ".", "c", "o", "m", "/",
              "e", "m", "b", "e", "d", "/">>
LitWatch == <<"y", "o", "u", "t", "u", "b", "e", ".", "c", "o", "m", "/",
              "w", "a", "t", "c", "h", "?">>
LitV == <<"v", "=">>

\* The URLs submitted: up to MaxUrlParts of these parts, concatenated.
UrlParts == {LitWatch, LitV, LitShort, LitEmbed, <<"x">>, <<"&">>, <<" ">>}
Urls == {JoinWith(ps, <<>>) : ps \in SeqsUpTo(UrlParts, MaxUrlParts)}

\* The characters [^&\n?#] excludes.
StopChars == {"&", "\n", "?", "#"}

\* The literal lit stands in s at position p.
LitAt(s, p, lit) ==
    /\ p >= 1
    /\ p + Len(lit) - 1 <= Len(s)
    /\ SubSeq(s, p, p + Len(lit) - 1) = lit

\* The last position of the longest run of [^&\n?#] that starts at p (p - 1
\* when there is none): the greedy group ([^&\n?#]+).
RECURSIVE IdEnd(_, _)
IdEnd(s, p) ==
    IF p <= Len(s) /\ s[p] \notin StopChars THEN IdEnd(s, p + 1) ELSE p - 1

IdRun(s, p) == SubSeq(s, p, IdEnd(s, p))

\* The alternatives of the first pattern, in order.
Alternatives == <<LitWatchV, LitShort, LitEmbed>>

\* The first pattern matched at position p: group 1, if it matches there.
RECURSIVE Match1At(_, _, _)
Match1At(s, p, k) ==
    IF k > Len(Alternatives) THEN None
    ELSE IF /\ LitAt(s, p, Alternatives[k])
            /\ IdEnd(s, p + Len(Alternatives[k])) >= p + Len(Alternatives[k])
         THEN Some(IdRun(s, p + Len(Alternatives[k])))
         ELSE Match1At(s, p, k + 1)

\* The second pattern matched at position p: ".*" takes the last "v=" on the
\* line that an id character follows.
RECURSIVE LastV(_, _, _)
LastV(s, from, q) ==
    IF q < from THEN 0
    ELSE IF /\ LitAt(s, q, LitV)
            /\ IdEnd(s, q + 2) >= q + 2
            /\ \A j \in from..(q - 1) : s[j] # "\n"
         THEN q
         ELSE LastV(s, from, q - 1)

Match2At(s, p) ==
    IF ~LitAt(s, p, LitWatch) THEN None
    ELSE LET q == LastV(s, p + Len(LitWatch), Len(s))
         IN IF q = 0 THEN None ELSE Some(IdRun(s, q + 2))

\* re.search: the match at the leftmost position that has one.
RECURSIVE Search1(_, _)
Search1(s, p) ==
    IF p > Len(s) THEN None
    ELSE IF Match1At(s, p, 1).some THEN Match1At(s, p, 1) ELSE Search1(s, p + 1)

RECURSIVE Search2(_, _)
Search2(s, p) ==
    IF p > Len(s) THEN None
    ELSE IF Match2At(s, p).some THEN Match2At(s, p) ELSE Search2(s, p + 1)

\* An extract_video_id that hands back the URL when no pattern matches.
extract_video_id_RawFallback(url) ==
    IF Search1(url, 1).some THEN Search1(url, 1)
    ELSE IF Search2(url, 1).some THEN Search2(url, 1)
    ELSE Some(url)

extract_video_id(url) ==
    IF Search1(url, 1).some THEN Search1(url, 1)
    ELSE IF Search2(url, 1).some THEN Search2(url, 1)
    ELSE None

-----------------------------------------------------------------------------
(* generate_summary, generate_mcqs, generate_flashcards *)

\* What the model may answer: an empty text or a text.
Responses == {<<>>, <<"r">>}

GenTexts == SeqsUpTo({"a", " "}, MaxGenLen)

\* A separator of one newline.
SepBlank_Single == <<"\n">>

\* The value of the "\n\n" separator.
SepBlank == <<"\n", "\n">>

\* The failure placeholders, each one a non-empty text.
Placeholder(k) ==
    CASE k = "summary" -> <<"Failed to generate summary.">>
      [] k = "mcqs" -> <<"Failed to generate MCQs.">>
      [] k = "flashcards" -> <<"Failed to generate flashcards.">>

ErrorMsg(k) ==
    CASE k = "summary" -> "Error generating summary"
      [] k = "mcqs" -> "Error generating MCQs"
      [] k = "flashcards" -> "Error generating flashcards"

UiItem(w, tag, data) == [w |-> w, tag |-> tag, data |-> data]

\* The content_type the flow passes to generate_summary.
ContentType ==
    CASE flow = "youtube" -> "YouTube video"
      [] flow = "pdf" -> "PDF document"
      [] OTHER -> "content"

\* The prompt built for one chunk: the template of the kind, with the content
\* type (summary) or the per-chunk count (MCQs, flashcards), and the chunk.
ChunkPrompt(k, n, chunk) ==
    [kind |-> k,
     ctype |-> IF k = "summary" THEN ContentType ELSE "",
     count |-> IF k = "summary" THEN 0 ELSE n,
     body |-> chunk]

\* The prompt of the call that combines the summaries.
MergePrompt(summaries) ==
    [kind |-> "merge", ctype |-> "", count |-> 0, body |-> JoinWith(summaries, <<" ">>)]

CallEv(p) == [ev |-> "call", prompt |-> Some(p), text |-> <<>>]
ReplyEv(r) == [ev |-> "reply", prompt |-> None, text |-> r]
RaiseEv == [ev |-> "raise", prompt |-> None, text |-> <<>>]
SleepEv == [ev |-> "sleep", prompt |-> None, text |-> <<>>]

\* total / n rounded up.
PerChunkCount_RoundsUp(total, n) == Max(1, (total + n - 1) \div n)

\* A per-chunk count without the floor of one.
PerChunkCount_NoFloor(total, n) == total \div n

\* max(1, num_questions // len(chunks))
PerChunkCount(total, n) == Max(1, total \div n)

\* A combining call only from the third summary on.
NeedsMerge_FromThree == kind = "summary" /\ Len(responses) > 2

\* if len(summaries) > 1, in generate_summary
NeedsMerge == kind = "summary" /\ Len(responses) > 1

\* The caller's side of a call generate_*(t, n).
CallGen(k, t, n) ==
    /\ kind' = k
    /\ text' = t
    /\ count' = n
    /\ per_chunk' = 0
    /\ idx' = 0
    /\ chunks' = <<>>
    /\ responses' = <<>>
    /\ inflight' = None
    /\ result' = None
    /\ trace' = <<>>
    /\ failure' = "none"
    /\ pc' = "gen_start"

\* A handler that returns what was collected, before the placeholder.
Fail_KeepsCollected(why) ==
    /\ ui' = Append(ui, UiItem("error", ErrorMsg(kind), <<>>))
    /\ result' = Some(JoinWith(responses, SepBlank) \o Placeholder(kind))
    /\ failure' = why
    /\ failed' = IF why = "model" THEN failed \cup {kind} ELSE failed
    /\ inflight' = None
    /\ pc' = "gen_done"

\* The handler "except Exception": one error on the page, the placeholder
\* returned.
Fail(why) ==
    /\ ui' = Append(ui, UiItem("error", ErrorMsg(kind), <<>>))
    /\ result' = Some(Placeholder(kind))
    /\ failure' = why
    /\ failed' = IF why = "model" THEN failed \cup {kind} ELSE failed
    /\ inflight' = None
    /\ pc' = "gen_done"

\* chunks = self.chunk_text(text), the empty result list, the per-chunk count.
GenStart ==
    /\ pc = "gen_start"
    /\ chunks' = chunk_text(text, DefaultMaxChars)
    /\ responses' = <<>>
    /\ idx' = 1
    /\ IF kind # "summary" /\ Len(chunks') = 0
       THEN /\ per_chunk' = 0
            /\ Fail("zerodiv")
       ELSE /\ per_chunk' = IF kind = "summary" THEN 0
                            ELSE PerChunkCount(count, Len(chunks'))
            /\ pc' = "gen_loop"
            /\ UNCHANGED <<ui, result, failure, failed, inflight>>
    /\ UNCHANGED <<text, max_chars, setupVars, flow, kind, count, trace, video_url, uploaded_file, doc,
                   svc_calls, stage_calls>>

\* A loop that takes the chunks from the last one to the first.
GenIssue_Reversed ==
    /\ pc = "gen_loop"
    /\ idx <= Len(chunks)
    /\ LET p == ChunkPrompt(kind, per_chunk, chunks[Len(chunks) + 1 - idx])
       IN /\ inflight' = Some(p)
          /\ trace' = Append(trace, CallEv(p))
    /\ stage_calls' = [stage_calls EXCEPT ![kind] = @ + 1]
    /\ pc' = "gen_call"
    /\ UNCHANGED <<text, max_chars, setupVars, chunks, flow, kind, count, per_chunk, idx,
                   responses, result, failure, ui, video_url, uploaded_file, doc, svc_calls, failed>>

\* The loop body up to self.model.generate_content(prompt) for the next chunk.
GenIssue ==
    /\ pc = "gen_loop"
    /\ idx <= Len(chunks)
    /\ LET p == ChunkPrompt(kind, per_chunk, chunks[idx])
       IN /\ inflight' = Some(p)
          /\ trace' = Append(trace, CallEv(p))
    /\ stage_calls' = [stage_calls EXCEPT ![kind] = @ + 1]
    /\ pc' = "gen_call"
    /\ UNCHANGED <<text, max_chars, setupVars, chunks, flow, kind, count, per_chunk, idx,
                   responses, result, failure, ui, video_url, uploaded_file, doc, svc_calls, failed>>

\* A loop that does not sleep after the last chunk.
GenReply_NoSleepAfterLast ==
    /\ pc = "gen_call"
    /\ \E r \in Responses :
         /\ responses' = Append(responses, r)
         /\ trace' = Append(trace, ReplyEv(r))
    /\ inflight' = None
    /\ idx' = idx + 1
    /\ pc' = IF Len(chunks) > 1 /\ idx < Len(chunks) THEN "gen_sleep" ELSE "gen_loop"
    /\ UNCHANGED <<text, max_chars, setupVars, chunks, flow, kind, count, per_chunk, result,
                   failure, ui, video_url, uploaded_file, doc, svc_calls, stage_calls, failed>>

\* The call returns: response.text is appended to the list.
GenReply ==
    /\ pc = "gen_call"
    /\ \E r \in Responses :
         /\ responses' = Append(responses, r)
         /\ trace' = Append(trace, ReplyEv(r))
    /\ inflight' = None
    /\ idx' = idx + 1
    /\ pc' = IF Len(chunks) > 1 THEN "gen_sleep" ELSE "gen_loop"
    /\ UNCHANGED <<text, max_chars, setupVars, chunks, flow, kind, count, per_chunk, result,
                   failure, ui, video_url, uploaded_file, doc, svc_calls, stage_calls, failed>>

\* The call (a per-chunk call or the combining call) raises.
GenRaise ==
    /\ pc \in {"gen_call", "gen_merge_call"}
    /\ trace' = Append(trace, RaiseEv)
    /\ Fail("model")
    /\ UNCHANGED <<text, max_chars, setupVars, chunks, flow, kind, count, per_chunk, idx,
                   responses, video_url, uploaded_file, doc, svc_calls, stage_calls>>

\* time.sleep(1) when there is more than one chunk.
GenSleep ==
    /\ pc = "gen_sleep"
    /\ trace' = Append(trace, SleepEv)
    /\ pc' = "gen_loop"
    /\ UNCHANGED <<text, max_chars, setupVars, chunks, flow, kind, count, per_chunk, idx,
                   responses, inflight, result, failure, ui, video_url, uploaded_file, doc,
                   svc_calls, stage_calls, failed>>

\* generate_summary after the loop, more than one summary: the combining call.
GenMergeIssue ==
    /\ pc = "gen_loop"
    /\ idx > Len(chunks)
    /\ NeedsMerge
    /\ LET p == MergePrompt(responses)
       IN /\ inflight' = Some(p)
          /\ trace' = Append(trace, CallEv(p))
    /\ stage_calls' = [stage_calls EXCEPT ![kind] = @ + 1]
    /\ pc' = "gen_merge_call"
    /\ UNCHANGED <<text, max_chars, setupVars, chunks, flow, kind, count, per_chunk, idx,
                   responses, result, failure, ui, video_url, uploaded_file, doc, svc_calls, failed>>

\* The combining call returns: its response.text is the return value.
GenMergeReply ==
    /\ pc = "gen_merge_call"
    /\ \E r \in Responses :
         /\ result' = Some(r)
         /\ trace' = Append(trace, ReplyEv(r))
    /\ inflight' = None
    /\ pc' = "gen_done"
    /\ UNCHANGED <<text, max_chars, setupVars, chunks, flow, kind, count, per_chunk, idx,
                   responses, failure, ui, video_url, uploaded_file, doc, svc_calls, stage_calls,
                   failed>>

\* The return after the loop: summaries[0] (an IndexError on an empty list),
\* or the responses joined with "\n\n".
GenReturn ==
    /\ pc = "gen_loop"
    /\ idx > Len(chunks)
    /\ ~NeedsMerge
    /\ IF kind = "summary" /\ Len(responses) = 0
       THEN Fail("index")
       ELSE /\ result' = Some(IF kind = "summary" THEN responses[1]
                              ELSE JoinWith(responses, SepBlank))
            /\ pc' = "gen_done"
            /\ UNCHANGED <<inflight, failure, ui, failed>>
    /\ UNCHANGED <<text, max_chars, setupVars, chunks, flow, kind, count, per_chunk, idx,
                   responses, trace, video_url, uploaded_file, doc, svc_calls, stage_calls>>

NextGen ==
    \/ GenStart
    \/ GenIssue
    \/ GenReply
    \/ GenRaise
    \/ GenSleep
    \/ GenMergeIssue
    \/ GenMergeReply
    \/ GenReturn

\* A generate_* function called on its own: every kind, text and count.
InitGen ==
    /\ pc = "gen_start"
    /\ flow = "none"
    /\ kind \in Kinds
    /\ text \in GenTexts
    /\ count \in (IF kind = "summary" THEN {0} ELSE 0..MaxCount)
    /\ max_chars = DefaultMaxChars
    /\ chunks = <<>>
    /\ per_chunk = 0
    /\ idx = 0
    /\ responses = <<>>
    /\ inflight = None
    /\ result = None
    /\ trace = <<>>
    /\ failure = "none"
    /\ FlowIdle
    /\ SetUp

SpecGen == InitGen /\ [][NextGen]_vars

-----------------------------------------------------------------------------
(* get_youtube_transcript, extract_pdf_text *)

\* What the transcript service may return: up to MaxSegs segment texts.
SegTexts == {<<>>, <<"a">>}
SegLists == SeqsUpTo(SegTexts, MaxSegs)

\* What a page's extract_text() may return: nothing, or a text.
PageTexts == {None, Some(<<>>), Some(<<" ">>), Some(<<"a">>), Some(<<" ", "a", "a">>)}
PageLists == SeqsUpTo(PageTexts, MaxPages)

\* What may be uploaded: nothing, a file that cannot be read, or a PDF.
Uploads ==
    {[st |-> "none", pages |-> <<>>], [st |-> "unreadable", pages |-> <<>>]}
        \cup {[st |-> "pdf", pages |-> ps] : ps \in PageLists}

\* The loop over pdf.pages: text += page_text + "\n" for every page with text.
\* A loop that leaves out the pages whose text is only whitespace.
RECURSIVE PagesText_SkipsBlank(_)
PagesText_SkipsBlank(pages) ==
    IF pages = <<>> THEN <<>>
    ELSE (IF Head(pages).some /\ Strip(Head(pages).val) # <<>>
          THEN Head(pages).val \o <<"\n">> ELSE <<>>)
         \o PagesText_SkipsBlank(Tail(pages))

\* The loop over pdf.pages: text += page_text + "\n" for every page with text.
RECURSIVE PagesText(_)
PagesText(pages) ==
    IF pages = <<>> THEN <<>>
    ELSE (IF Head(pages).some /\ Head(pages).val # <<>>
          THEN Head(pages).val \o <<"\n">> ELSE <<>>)
         \o PagesText(Tail(pages))

\* extract_pdf_text: the stripped text, or None when pdfplumber raises or
\* nothing but whitespace was collected.
extract_pdf_text(file) ==
    IF file.st = "unreadable" THEN None
    ELSE IF Strip(PagesText(file.pages)) = <<>> THEN None
    ELSE Some(Strip(PagesText(file.pages)))

\* The st.error message of extract_pdf_text when it returns None.
extract_pdf_error(file) ==
    IF file.st = "unreadable" THEN "Error extracting PDF text"
    ELSE "No text could be extracted from the PDF"

-----------------------------------------------------------------------------
(* youtube_interface and pdf_interface, "generate" pressed *)

DownloadFile(k) ==
    CASE flow = "youtube" -> "youtube_summary.md"
      [] k = "mcqs" -> "pdf_mcqs.md"
      [] k = "flashcards" -> "pdf_flashcards.md"
      [] OTHER -> ""

\* Nothing of a generate_* call is running.
GenUntouched ==
    UNCHANGED <<text, chunks, kind, count, per_chunk, idx, responses, inflight,
                result, trace, failure>>

\* The flow ends with the items on the page and no generate_* call made.
EndWith(items) ==
    /\ ui' = ui \o items
    /\ pc' = "done"
    /\ GenUntouched

\* Some pattern of extract_video_id matches somewhere in the URL.
MatchesPattern1(s) ==
    \E p \in 1..Len(s) : \E k \in 1..Len(Alternatives) :
        /\ LitAt(s, p, Alternatives[k])
        /\ p + Len(Alternatives[k]) <= Len(s)
        /\ s[p + Len(Alternatives[k])] \notin StopChars

MatchesPattern2(s) ==
    \E p \in 1..Len(s) : \E q \in 1..Len(s) :
        /\ LitAt(s, p, LitWatch)
        /\ q >= p + Len(LitWatch)
        /\ LitAt(s, q, LitV)
        /\ q + 2 <= Len(s)
        /\ s[q + 2] \notin StopChars
        /\ \A j \in (p + Len(LitWatch))..(q - 1) : s[j] # "\n"

MatchesSomePattern(s) == MatchesPattern1(s) \/ MatchesPattern2(s)

\* youtube_interface with the button pressed: the checks of the URL field.
YoutubeSubmit ==
    /\ pc = "idle"
    /\ flow' = "youtube"
    /\ \E url \in Urls :
         /\ video_url' = Some(url)
         /\ IF url = <<>> \/ Strip(url) = <<>>
            THEN EndWith(<<UiItem("warning", "Please enter a YouTube URL", <<>>)>>)
            ELSE /\ pc' = "yt_transcript"
                 /\ UNCHANGED ui
                 /\ GenUntouched
    /\ UNCHANGED <<max_chars, setupVars, uploaded_file, doc, svc_calls, stage_calls, failed>>

\* get_youtube_transcript(video_url), and "if transcript:" with
\* generate_summary entered.  The URL is not read again once the video id is
\* extracted from it.
GetTranscript ==
    /\ pc = "yt_transcript"
    /\ IF ~extract_video_id(video_url.val).some
       THEN /\ EndWith(<<UiItem("error", "Invalid YouTube URL format", <<>>)>>)
            /\ UNCHANGED <<video_url, doc, svc_calls>>
       ELSE /\ video_url' = None
            /\ svc_calls' = svc_calls + 1
            /\ \E out \in {None} \cup {Some(segs) : segs \in SegLists} :
                 IF ~out.some
                 THEN /\ EndWith(<<UiItem("error", "Error fetching transcript", <<>>),
                                   UiItem("info", "Make sure the video has captions", <<>>)>>)
                      /\ UNCHANGED doc
                 ELSE LET transcript == JoinWith(out.val, <<" ">>)
                      IN /\ doc' = Some(transcript)
                         /\ IF transcript # <<>>
                            THEN /\ ui' = Append(ui, UiItem("success", "Transcript fetched", <<>>))
                                 /\ CallGen("summary", transcript, 0)
                            ELSE EndWith(<<>>)
    /\ UNCHANGED <<max_chars, setupVars, uploaded_file, flow, stage_calls, failed>>

\* youtube_interface after generate_summary returned: "if summary:".
YoutubeShowSummary ==
    /\ flow = "youtube"
    /\ pc = "gen_done"
    /\ ui' = IF result.val # <<>>
             THEN ui \o <<UiItem("markdown", "summary", result.val),
                          UiItem("download", DownloadFile("summary"), result.val)>>
             ELSE ui
    /\ pc' = "done"
    /\ GenUntouched
    /\ UNCHANGED <<max_chars, setupVars, flow, video_url, uploaded_file, doc, svc_calls, stage_calls, failed>>

\* pdf_interface with the button pressed: "if generate_btn and uploaded_file".
PdfSubmit ==
    /\ pc = "idle"
    /\ flow' = "pdf"
    /\ \E file \in Uploads :
         IF file.st = "none"
         THEN /\ EndWith(<<UiItem("warning", "Please upload a PDF file", <<>>)>>)
              /\ UNCHANGED uploaded_file
         ELSE /\ uploaded_file' = Some(file)
              /\ pc' = "pdf_extract"
              /\ UNCHANGED ui
              /\ GenUntouched
    /\ UNCHANGED <<max_chars, setupVars, video_url, doc, svc_calls, stage_calls, failed>>

\* extract_pdf_text(uploaded_file), and "if pdf_text:" with generate_summary
\* entered.  The file is not read again once its text is extracted.
ExtractPdf ==
    /\ pc = "pdf_extract"
    /\ uploaded_file' = None
    /\ LET file == uploaded_file.val
           pdf_text == extract_pdf_text(file)
       IN IF pdf_text.some
          THEN /\ doc' = pdf_text
               /\ ui' = Append(ui, UiItem("success", "Text extracted", <<>>))
               /\ CallGen("summary", pdf_text.val, 0)
          ELSE /\ EndWith(<<UiItem("error", extract_pdf_error(file), <<>>)>>)
               /\ UNCHANGED doc
    /\ UNCHANGED <<max_chars, setupVars, flow, video_url, svc_calls, stage_calls, failed>>

\* pdf_interface after generate_summary returned: the summary tab, then
\* generate_mcqs entered.
PdfShowSummary ==
    /\ flow = "pdf"
    /\ pc = "gen_done"
    /\ kind = "summary"
    /\ ui' = IF result.val # <<>>
             THEN Append(ui, UiItem("markdown", "summary", result.val))
             ELSE ui
    /\ CallGen("mcqs", doc.val, DefaultNumQuestions)
    /\ UNCHANGED <<max_chars, setupVars, flow, video_url, uploaded_file, doc, svc_calls, stage_calls, failed>>

\* pdf_interface after generate_mcqs returned: the MCQ tab, then
\* generate_flashcards entered.
PdfShowMcqs ==
    /\ flow = "pdf"
    /\ pc = "gen_done"
    /\ kind = "mcqs"
    /\ ui' = ui \o <<UiItem("markdown", "mcqs", result.val),
                     UiItem("download", DownloadFile("mcqs"), result.val)>>
    /\ CallGen("flashcards", doc.val, DefaultNumCards)
    /\ UNCHANGED <<max_chars, setupVars, flow, video_url, uploaded_file, doc, svc_calls, stage_calls, failed>>

\* pdf_interface after generate_flashcards returned: the flashcard tab.
PdfShowFlashcards ==
    /\ flow = "pdf"
    /\ pc = "gen_done"
    /\ kind = "flashcards"
    /\ ui' = ui \o <<UiItem("markdown", "flashcards", result.val),
                     UiItem("download", DownloadFile("flashcards"), result.val)>>
    /\ pc' = "done"
    /\ GenUntouched
    /\ UNCHANGED <<max_chars, setupVars, flow, video_url, uploaded_file, doc, svc_calls, stage_calls, failed>>

\* What GOOGLE_API_KEY may be in either store: unset, empty, or a key.
SecretValues == {None, Some(<<>>), Some(<<"s">>)}
EnvValues == {None, Some(<<>>), Some(<<"e">>)}

\* Python's truth value of an optional string.
Truthy(v) == v.some /\ v.val # <<>>

\* A lookup that asks the environment first.
ApiKey_EnvFirst(secret, env) == IF Truthy(env) THEN env ELSE secret

\* st.secrets.get("GOOGLE_API_KEY") or os.getenv("GOOGLE_API_KEY")
ApiKey(secret, env) == IF Truthy(secret) THEN secret ELSE env

InitFailed == UiItem("error", "Failed to initialize Google Generative AI", <<>>)

\* AILearningAssistant(): setup_api.  st.stop() ends the run; whether its
\* exception passes "except Exception" is the library's matter, and either
\* way the handler's own st.stop() ends the run.  The lookup and the
\* configuration may raise.
SetupApi ==
    /\ pc = "startup"
    /\ LET api_key == ApiKey(secret_key, env_key)
       IN \/ /\ ~Truthy(api_key)
             /\ \E caught \in BOOLEAN :
                  ui' = <<UiItem("error", "Google API Key not found", <<>>),
                          UiItem("info", "To get an API key", <<>>)>>
                        \o (IF caught THEN <<InitFailed>> ELSE <<>>)
             /\ model' = None
             /\ pc' = "stopped"
          \/ /\ Truthy(api_key)
             /\ model' = Some(api_key.val)
             /\ pc' = "idle"
             /\ UNCHANGED ui
          \/ /\ ui' = <<InitFailed>>
             /\ model' = None
             /\ pc' = "stopped"
    /\ GenUntouched
    /\ UNCHANGED <<max_chars, secret_key, env_key, flow, video_url, uploaded_file, doc,
                   svc_calls, stage_calls, failed>>

\* One run of the script, from main() on, with a "generate" button pressed.
Init ==
    /\ pc = "startup"
    /\ flow = "none"
    /\ text = <<>>
    /\ max_chars = DefaultMaxChars
    /\ chunks = <<>>
    /\ GenIdle
    /\ FlowIdle
    /\ secret_key \in SecretValues
    /\ env_key \in EnvValues
    /\ model = None

Next ==
    \/ SetupApi
    \/ YoutubeSubmit
    \/ GetTranscript
    \/ YoutubeShowSummary
    \/ PdfSubmit
    \/ ExtractPdf
    \/ PdfShowSummary
    \/ PdfShowMcqs
    \/ PdfShowFlashcards
    \/ NextGen

Spec == Init /\ [][Next]_vars

-----------------------------------------------------------------------------
(* Properties of chunk_text *)

ChunkDone == pc = "chunk_done"

\* The words of the chunks joined with single spaces.
WordsOfChunks == Split(JoinWith(chunks, <<" ">>))

LongWordIn(t, maxc) == \E k \in 1..Len(Split(t)) : Len(Split(t)[k]) > maxc

IsSuffix(s, t) == Len(s) <= Len(t) /\ s = Drop(t, Len(t) - Len(s))

\* cw is ow with some of the words longer than maxc cut in two at maxc.
RECURSIVE SameUpToCuts(_, _, _)
SameUpToCuts(cw, ow, maxc) ==
    IF ow = <<>> THEN cw = <<>>
    ELSE /\ cw # <<>>
         /\ \/ /\ Head(cw) = Head(ow)
               /\ SameUpToCuts(Tail(cw), Tail(ow), maxc)
            \/ /\ Len(Head(ow)) > maxc
               /\ Len(cw) >= 2
               /\ cw[1] = Take(Head(ow), maxc)
               /\ cw[2] = Drop(Head(ow), maxc)
               /\ SameUpToCuts(Tail(Tail(cw)), Tail(ow), maxc)

\* C1: every chunk chunk_text returns has length at most max_chars, also when
\* the text holds words longer than max_chars.
C1_ChunksBounded ==
    ChunkDone => \A k \in 1..Len(chunks) : Len(chunks[k]) <= max_chars

\* C2 (as stated): the chunks joined with single spaces split into exactly the
\* words of the text: same words, same order, none lost, duplicated or split.
C2_WordsPreserved ==
    ChunkDone => WordsOfChunks = Split(text)

\* C2 (amended): the chunks joined with single spaces split into the words of
\* the text in order, except that a word longer than max_chars may be cut in
\* two at its max_chars-th character; without such a word the two word
\* sequences are equal.
C2_WordsPreservedUpToCuts ==
    ChunkDone =>
        /\ SameUpToCuts(WordsOfChunks, Split(text), max_chars)
        /\ ~LongWordIn(text, max_chars) => WordsOfChunks = Split(text)

\* C2 witness: a text of three short words split over several chunks, one of
\* which holds two words.
C2_Witness ==
    /\ ChunkDone
    /\ Len(text) > max_chars
    /\ ~LongWordIn(text, max_chars)
    /\ Len(Split(text)) >= 3
    /\ Len(chunks) >= 2
    /\ \E k \in 1..Len(chunks) : Len(Split(chunks[k])) >= 2

\* C3 (as stated): chunk_text returns no empty chunk, and the words still
\* accumulated when the input ends are emitted as the last chunk.
C3_NoEmptyChunk ==
    ChunkDone =>
        /\ \A k \in 1..Len(chunks) : chunks[k] # <<>>
        /\ Len(text) > max_chars /\ ChunkLoopEnd(text, max_chars).current_chunk # <<>>
             => /\ chunks # <<>>
                /\ chunks[Len(chunks)] =
                     JoinWith(ChunkLoopEnd(text, max_chars).current_chunk, <<" ">>)

\* C3 (amended): for every non-empty text, chunk_text returns no empty chunk,
\* and the words still accumulated when the input ends are emitted as the last
\* chunk (so the last chunk ends with the end of the text's last word).
C3_NoEmptyChunkOfNonEmptyText ==
    ChunkDone /\ text # <<>> =>
        /\ \A k \in 1..Len(chunks) : chunks[k] # <<>>
        /\ Len(text) > max_chars /\ ChunkLoopEnd(text, max_chars).current_chunk # <<>>
             => /\ chunks # <<>>
                /\ chunks[Len(chunks)] =
                     JoinWith(ChunkLoopEnd(text, max_chars).current_chunk, <<" ">>)
        /\ Split(text) # <<>>
             => /\ WordsOfChunks # <<>>
                /\ IsSuffix(WordsOfChunks[Len(WordsOfChunks)],
                            Split(text)[Len(Split(text))])

\* C3 witness: a long text whose loop ends with two words accumulated, after
\* an earlier chunk was emitted.
C3_Witness ==
    /\ ChunkDone
    /\ Len(text) > max_chars
    /\ Len(ChunkLoopEnd(text, max_chars).current_chunk) >= 2
    /\ Len(chunks) >= 2

\* C4: a text no longer than max_chars comes back as exactly one chunk, the
\* text itself, whitespace untouched.
C4_ShortTextOneChunk ==
    ChunkDone /\ Len(text) <= max_chars => chunks = <<text>>

\* C4 witness: a short text that whitespace normalisation would change.
C4_Witness ==
    /\ ChunkDone
    /\ Len(text) <= max_chars
    /\ Split(text) # <<>>
    /\ JoinWith(Split(text), <<" ">>) # text

\* C5: every word longer than max_chars, wherever it occurs, is truncated to
\* its first max_chars characters for one chunk, and its remaining characters
\* are the first word of the next chunk.
C5_LongWordsTruncated ==
    ChunkDone =>
        \A k \in 1..Len(Split(text)) :
            LET word == Split(text)[k]
            IN Len(word) > max_chars =>
                 \E c \in 1..(Len(chunks) - 1) :
                     /\ chunks[c] = Take(word, max_chars)
                     /\ Split(chunks[c + 1]) # <<>>
                     /\ Head(Split(chunks[c + 1])) = Drop(word, max_chars)

-----------------------------------------------------------------------------
(* Properties of the generate_* functions *)

IsCall(e) == e.ev = "call"
IsReply(e) == e.ev = "reply"
IsRaise(e) == e.ev = "raise"
IsError(u) == u.w = "error"

\* The model calls issued and the responses received in this call, in order.
Calls == SelectSeq(trace, IsCall)
Replies == SelectSeq(trace, IsReply)

\* The chunks of the text the running generate_* was given.
TextChunks == chunk_text(text, DefaultMaxChars)

GenDone == pc = "gen_done"

\* C6: with no model call failing, generate_summary over one chunk issues one
\* call and returns its response; over N > 1 chunks it issues N + 1 calls, one
\* per chunk in chunk order and then one whose prompt holds the N summaries in
\* chunk order, and returns the response of that last call.
C6_SummaryCalls ==
    GenDone /\ kind = "summary" /\ failure # "model" =>
        LET N == Len(TextChunks)
        IN /\ N = 1 =>
                /\ Len(Calls) = 1
                /\ Calls[1].prompt = Some(ChunkPrompt("summary", 0, TextChunks[1]))
                /\ Len(Replies) = 1
                /\ result = Some(Replies[1].text)
           /\ N > 1 =>
                /\ Len(Calls) = N + 1
                /\ Len(Replies) = N + 1
                /\ \A k \in 1..N :
                     Calls[k].prompt = Some(ChunkPrompt("summary", 0, TextChunks[k]))
                /\ Calls[N + 1].prompt =
                     Some(MergePrompt([k \in 1..N |-> Replies[k].text]))
                /\ result = Some(Replies[N + 1].text)

\* C6 witness: a summary over three chunks returned, the first two summaries
\* different.
C6_Witness ==
    /\ GenDone
    /\ kind = "summary"
    /\ failure = "none"
    /\ Len(TextChunks) = 3
    /\ Len(Calls) = 4
    /\ responses[1] # responses[2]

\* C7: the count asked for in every per-chunk prompt of generate_mcqs and
\* generate_flashcards is max(1, total // chunk count): at least 1, and the
\* floor of the quotient when that is at least 1.
C7_PerChunkCount ==
    kind \in {"mcqs", "flashcards"} =>
        \A k \in 1..Len(Calls) :
            LET c == Calls[k].prompt.val.count
                N == Len(TextChunks)
            IN /\ c >= 1
               /\ count < N => c = 1
               /\ count >= N => c * N <= count /\ count < (c + 1) * N

\* C7 witness: a call of generate_mcqs with a total smaller than the number of
\* chunks, and all of its prompts sent.
C7_Witness ==
    /\ GenDone
    /\ kind = "mcqs"
    /\ count < Len(TextChunks)
    /\ Len(Calls) = Len(TextChunks)
    /\ Len(Calls) >= 2

\* C8: once a model call raises, the function is over: one error is on the
\* page, the failed call was the last event (no retry, no further chunk, no
\* combining call), and the return value is the failure placeholder alone.
C8_ModelFailure ==
    failure = "model" =>
        /\ GenDone
        /\ inflight = None
        /\ trace # <<>>
        /\ IsRaise(trace[Len(trace)])
        /\ Len(SelectSeq(trace, IsRaise)) = 1
        /\ Len(Calls) = Len(Replies) + 1
        /\ Len(SelectSeq(ui, IsError)) = 1
        /\ ui[Len(ui)] = UiItem("error", ErrorMsg(kind), <<>>)
        /\ result = Some(Placeholder(kind))
        /\ kind \in failed

\* C8 witness: the second of three per-chunk calls raised after a non-empty
\* first response was collected.
C8_Witness ==
    /\ failure = "model"
    /\ Len(TextChunks) = 3
    /\ Len(Calls) = 2
    /\ responses = <<<<"r">>>>

-----------------------------------------------------------------------------
(* Properties of the flows *)

\* The result of generate_*(k) is on the page / offered for download.
Shown(k) == \E j \in 1..Len(ui) : ui[j].w = "markdown" /\ ui[j].tag = k
Offered(k) == \E j \in 1..Len(ui) : ui[j].w = "download" /\ ui[j].tag = DownloadFile(k)

\* The order of the stages of the PDF flow.
StageNo(k) == CASE k = "summary" -> 1 [] k = "mcqs" -> 2 [] k = "flashcards" -> 3

\* C9: a model-call failure short-circuits the rest of the flow: the failed
\* stage's result is neither rendered nor offered for download, and no later
\* stage issues a model call, renders or offers anything.
C9_FailureShortCircuits ==
    \A k \in failed :
        /\ ~Shown(k)
        /\ ~Offered(k)
        /\ \A l \in Kinds :
             StageNo(l) > StageNo(k) =>
                 stage_calls[l] = 0 /\ ~Shown(l) /\ ~Offered(l)

NoModelCall ==
    /\ \A k \in Kinds : stage_calls[k] = 0
    /\ trace = <<>>
    /\ inflight = None

\* C10: for a URL that matches none of the patterns extract_video_id returns
\* null, get_youtube_transcript reports "Invalid YouTube URL format" and
\* returns null without calling the transcript service, and the flow ends
\* there, with no model call before or after.
C10_InvalidUrlNoCalls ==
    /\ [](flow = "youtube" /\ video_url.some /\ ~MatchesSomePattern(video_url.val)
            => /\ extract_video_id(video_url.val) = None
               /\ svc_calls = 0
               /\ doc = None
               /\ NoModelCall)
    /\ [][/\ pc # "done"
          /\ pc = "yt_transcript" /\ ~MatchesSomePattern(video_url.val)
               => /\ ui' = Append(ui, UiItem("error", "Invalid YouTube URL format", <<>>))
                  /\ doc' = None
                  /\ svc_calls' = 0
                  /\ pc' = "done"]_vars

\* C10 witness: the flow over, for a URL that holds "youtube.com/watch?" and
\* still matches no pattern.
C10_Witness ==
    /\ pc = "done"
    /\ flow = "youtube"
    /\ video_url.some
    /\ ~MatchesSomePattern(video_url.val)
    /\ \E p \in 1..Len(video_url.val) : LitAt(video_url.val, p, LitWatch)
    /\ ui = <<UiItem("error", "Invalid YouTube URL format", <<>>)>>
    /\ svc_calls = 0
    /\ NoModelCall

-----------------------------------------------------------------------------
(* Order and pacing of the model calls of one generate_* call *)

IsSleep(e) == e.ev = "sleep"

\* The number of events of trace[1..j] that satisfy Test.
CountUpTo(j, Test(_)) == Cardinality({i \in 1..j : Test(trace[i])})

\* C11: the model calls of one generate_* call are sequential and in chunk
\* order: a call is in flight only as the last event, every other call is
\* followed at once by its return or its raise, the k-th call carries chunk k,
\* and the combining call comes after the return of the call for the last
\* chunk.
C11_SequentialCalls ==
    /\ inflight.some <=> (trace # <<>> /\ IsCall(trace[Len(trace)]))
    /\ \A j \in 1..Len(trace) :
         IsCall(trace[j]) =>
            /\ j = Len(trace) => inflight = trace[j].prompt
            /\ j < Len(trace) => IsReply(trace[j + 1]) \/ IsRaise(trace[j + 1])
            /\ CountUpTo(j - 1, IsReply) = CountUpTo(j - 1, IsCall)
            /\ IF trace[j].prompt.val.kind = "merge"
               THEN /\ kind = "summary"
                    /\ CountUpTo(j - 1, IsReply) = Len(TextChunks)
               ELSE /\ CountUpTo(j, IsCall) <= Len(TextChunks)
                    /\ trace[j].prompt.val.body = TextChunks[CountUpTo(j, IsCall)]

\* C11 witness: the combining call in flight after the calls for three chunks,
\* not all alike, have returned.
C11_Witness ==
    /\ pc = "gen_merge_call"
    /\ inflight.some
    /\ Len(TextChunks) = 3
    /\ TextChunks[1] # TextChunks[2]
    /\ Len(Replies) = 3

\* C12: in a generate_* call over more than one chunk exactly one sleep lies
\* between every two consecutive model calls, the combining call included;
\* in a call over one chunk there is no sleep.
C12_DelayBetweenCalls ==
    /\ \A j \in 1..Len(trace) :
         IsCall(trace[j]) /\ CountUpTo(j - 1, IsCall) > 0 =>
            /\ Len(TextChunks) > 1
            /\ j >= 4
            /\ IsSleep(trace[j - 1])
            /\ IsReply(trace[j - 2])
            /\ IsCall(trace[j - 3])
    /\ Len(TextChunks) <= 1 => CountUpTo(Len(trace), IsSleep) = 0

\* C12 witness: a summary over two chunks with its combining call issued, two
\* sleeps behind it.
C12_Witness ==
    /\ kind = "summary"
    /\ Len(TextChunks) = 2
    /\ Len(Calls) = 3
    /\ CountUpTo(Len(trace), IsSleep) = 2

-----------------------------------------------------------------------------
(* Startup *)

\* C13: once setup_api has run with no key in the secret store and none in
\* the environment, the run has stopped with an error on the page, the model
\* is not configured, and no flow has begun: no transcript fetch, no PDF read,
\* no model call.  A model configured while the secret store holds a key is
\* configured with that key.
C13_NoKeyStops ==
    /\ (pc # "startup" /\ ~Truthy(secret_key) /\ ~Truthy(env_key)) =>
          /\ pc = "stopped"
          /\ ~model.some
          /\ \E j \in 1..Len(ui) : IsError(ui[j])
          /\ flow = "none"
          /\ svc_calls = 0
          /\ uploaded_file = None
          /\ doc = None
          /\ trace = <<>>
          /\ \A k \in Kinds : stage_calls[k] = 0
    /\ pc = "stopped" => ~model.some /\ flow = "none" /\ trace = <<>>
    /\ (model.some /\ Truthy(secret_key)) => model.val = secret_key.val

\* C13 witness: a run stopped at startup with the key unset in both stores.
C13_Witness ==
    /\ pc = "stopped"
    /\ secret_key = None
    /\ env_key = None
    /\ Len(ui) = 2

-----------------------------------------------------------------------------
(* What generate_mcqs and generate_flashcards ask for and return *)

NoRaise == \A j \in 1..Len(trace) : ~IsRaise(trace[j])

\* C14: generate_mcqs and generate_flashcards over N >= 1 chunks, no call
\* raising, issue exactly N model calls, the k-th for chunk k and none to
\* combine, and return the N responses as they came, in order, with two
\* newlines between neighbours.
C14_OneCallPerChunk ==
    (GenDone /\ kind \in {"mcqs", "flashcards"} /\ Len(TextChunks) >= 1 /\ NoRaise) =>
        LET N == Len(TextChunks)
        IN /\ failure = "none"
           /\ Len(Calls) = N
           /\ Len(Replies) = N
           /\ \A k \in 1..N :
                /\ Calls[k].prompt.val.kind = kind
                /\ Calls[k].prompt.val.body = TextChunks[k]
           /\ result = Some(JoinWith([k \in 1..N |-> Replies[k].text], <<"\n", "\n">>))

\* C14 witness: flashcards over three chunks returned, the responses not all
\* alike.
C14_Witness ==
    /\ GenDone
    /\ kind = "flashcards"
    /\ Len(TextChunks) = 3
    /\ NoRaise
    /\ Len(Replies) = 3
    /\ Replies[1].text # Replies[2].text
    /\ result.some

-----------------------------------------------------------------------------
(* extract_pdf_text in the PDF flow *)

\* The page yielded a text (of one character or more).
Yielded(p) == p.some /\ p.val # <<>>

\* No page of the list yields a text with a character that is not whitespace.
NoPageText(pages) ==
    \A k \in 1..Len(pages) : ~pages[k].some \/ Strip(pages[k].val) = <<>>

\* The texts of the yielding pages in page order, a newline after each.
PagesInOrder(pages) ==
    LET ys == SelectSeq(pages, Yielded)
    IN JoinWith([k \in 1..Len(ys) |-> ys[k].val \o <<"\n">>], <<>>)

\* C15: the step that runs extract_pdf_text on the uploaded file either ends
\* the flow with an error on the page, no text kept and no model call issued
\* (the file cannot be read, or no page yields a text that is more than
\* whitespace), or keeps the stripped texts of the yielding pages, in page
\* order, a newline after each; and a PDF flow that ended with no text has
\* issued no model call of any kind.
C15_PdfText ==
    /\ [](flow = "pdf" /\ pc = "done" /\ doc = None =>
            /\ trace = <<>>
            /\ \A k \in Kinds : stage_calls[k] = 0)
    /\ [][pc = "pdf_extract" =>
            LET file == uploaded_file.val
            IN IF file.st = "unreadable" \/ NoPageText(file.pages)
               THEN /\ doc' = None
                    /\ pc' = "done"
                    /\ Len(ui') = Len(ui) + 1
                    /\ IsError(ui'[Len(ui')])
                    /\ stage_calls' = stage_calls
                    /\ trace' = <<>>
                    /\ inflight' = None
               ELSE /\ doc' = Some(Strip(PagesInOrder(file.pages)))
                    /\ text' = doc'.val
                    /\ pc' = "gen_start"]_vars

\* C15 witness: a text extracted from three pages, the middle one blank, its
\* last newline stripped.
C15_Witness ==
    /\ flow = "pdf"
    /\ pc = "gen_start"
    /\ kind = "summary"
    /\ doc = Some(<<"a", "\n", " ", "\n", "a">>)

-----------------------------------------------------------------------------
(* Texts without words; the total asked for *)

RECURSIVE SumSeq(_)
SumSeq(s) == IF s = <<>> THEN 0 ELSE Head(s) + SumSeq(Tail(s))

\* C16: of a text of whitespace only, longer than max_chars, chunk_text
\* returns the empty list (for every max_chars of the model), and a
\* generate_* call on such a text issues no model call at any point and ends
\* with one error on the page and its placeholder returned, the exception
\* (an index error in generate_summary, a division by zero in the other two)
\* caught.
C16_BlankText ==
    Split(text) = <<>> =>
        /\ \A m \in 1..MaxCharsBound : Len(text) > m => chunk_text(text, m) = <<>>
        /\ (Len(text) > DefaultMaxChars /\ flow = "none") =>
              /\ trace = <<>>
              /\ inflight = None
              /\ GenDone =>
                    /\ ui = <<UiItem("error", ErrorMsg(kind), <<>>)>>
                    /\ result = Some(Placeholder(kind))
                    /\ failure = (IF kind = "summary" THEN "index" ELSE "zerodiv")

\* C16 witness: generate_mcqs returned on a text of three spaces.
C16_Witness ==
    /\ GenDone
    /\ kind = "mcqs"
    /\ text = <<" ", " ", " ">>
    /\ failure = "zerodiv"
    /\ result = Some(Placeholder("mcqs"))

\* C17: in generate_mcqs and generate_flashcards over N >= 1 chunks with
\* T >= 1 items asked for and no call raising, the counts asked of the model
\* add up to N * max(1, T // N): at most T when N <= T, and N, more than T,
\* when N > T.
C17_TotalAsked ==
    (GenDone /\ kind \in {"mcqs", "flashcards"} /\ Len(TextChunks) >= 1
        /\ count >= 1 /\ NoRaise) =>
        LET N == Len(TextChunks)
            asked == SumSeq([k \in 1..Len(Calls) |-> Calls[k].prompt.val.count])
        IN /\ Len(Calls) = N
           /\ asked = N * Max(1, count \div N)
           /\ N <= count => asked <= count
           /\ N > count => asked = N /\ asked > count

\* C17 witness: three items asked for over two chunks, two asked of the model.
C17_Witness ==
    /\ GenDone
    /\ kind = "mcqs"
    /\ NoRaise
    /\ Len(TextChunks) = 2
    /\ count = 3
    /\ Len(Calls) = 2
    /\ Calls[1].prompt.val.count = 1

====
